---------------------------- MODULE Spec2Model ----------------------------
(***************************************************************************)
(* A model of the go-wintask package: the argument-vector builder and the  *)
(* invocation shim around SCHTASKS (src/tasker.go), and of the earlier     *)
(* revision of the same package kept in src/unnamed/part_000.              *)
(*                                                                         *)
(* A Go string is modelled as a sequence of one-character strings, so that *)
(* concatenation, trimming, splitting, case folding and substring search   *)
(* are computed and not assumed.  An argument vector is a sequence of such *)
(* strings.                                                                *)
(***************************************************************************)
EXTENDS Integers, Sequences, FiniteSets, TLC

(***************************************************************************)
(* Bounds of the model.                                                    *)
(***************************************************************************)
\* how many fields of a TaskCreate record are set at once (besides the
\* record with every field set)
MaxFields == 2
\* how many lines the external output of a query holds
MaxLines == 2

(***************************************************************************)
(* The Go library functions the package uses, over sequences of characters *)
(***************************************************************************)
Upper == <<"A", "B", "C", "D", "E", "F", "G", "H", "I", "J", "K", "L", "M",
           "N", "O", "P", "Q", "R", "S", "T", "U", "V", "W", "X", "Y", "Z">>

Lower == <<"a", "b", "c", "d", "e", "f", "g", "h", "i", "j", "k", "l", "m",
           "n", "o", "p", "q", "r", "s", "t", "u", "v", "w", "x", "y", "z">>

\* strings.ToLower, on one character (ASCII)
LowerChar(c) ==
    IF \E i \in 1..Len(Upper) : Upper[i] = c
    THEN Lower[CHOOSE i \in 1..Len(Upper) : Upper[i] = c]
    ELSE c

\* strings.ToLower
ToLower(s) == [i \in 1..Len(s) |-> LowerChar(s[i])]

\* strings.Contains
Contains(s, sub) ==
    \E i \in 0..(Len(s) - Len(sub)) : SubSeq(s, i + 1, i + Len(sub)) = sub

\* strings.HasPrefix
HasPrefix(s, p) == Len(p) <= Len(s) /\ SubSeq(s, 1, Len(p)) = p

\* strings.TrimSuffix
TrimSuffix(s, suf) ==
    IF Len(suf) <= Len(s) /\ SubSeq(s, Len(s) - Len(suf) + 1, Len(s)) = suf
    THEN SubSeq(s, 1, Len(s) - Len(suf))
    ELSE s

\* unicode.IsSpace, on the ASCII white space
IsSpace(c) == c \in {" ", "\t", "\n", "\r", "\f"}

RECURSIVE TrimLeft(_)
TrimLeft(s) ==
    IF s # <<>> /\ IsSpace(Head(s)) THEN TrimLeft(Tail(s)) ELSE s

RECURSIVE TrimRight(_)
TrimRight(s) ==
    IF s # <<>> /\ IsSpace(s[Len(s)])
    THEN TrimRight(SubSeq(s, 1, Len(s) - 1))
    ELSE s

\* strings.TrimSpace
TrimSpace(s) == TrimRight(TrimLeft(s))

\* strings.Replace(s, old, "", -1) for a one-character old
RemoveAll(s, c) == SelectSeq(s, LAMBDA x : x # c)

\* strings.IndexRune(s, c) >= 0
HasRune(s, c) == \E i \in 1..Len(s) : s[i] = c

\* the index of the first c in s, 0 when there is none
IndexOf(s, c) ==
    IF HasRune(s, c) THEN CHOOSE i \in 1..Len(s) :
                              s[i] = c /\ \A j \in 1..(i - 1) : s[j] # c
    ELSE 0

\* strings.Split(s, sep) for a one-character sep: the fields between the
\* separators, one field (the whole string) when there is none
RECURSIVE Split(_, _)
Split(s, sep) ==
    LET i == IndexOf(s, sep)
    IN  IF i = 0 THEN <<s>>
        ELSE <<SubSeq(s, 1, i - 1)>> \o Split(SubSeq(s, i + 1, Len(s)), sep)

\* bufio.ScanLines' dropCR
DropCR(s) ==
    IF s # <<>> /\ s[Len(s)] = "\r" THEN SubSeq(s, 1, Len(s) - 1) ELSE s

\* the tokens bufio.Scanner yields with the default split function
\* bufio.ScanLines: each line without its end-of-line marker (one optional
\* carriage return, one newline); a last line without a newline is yielded
\* when it is not empty
RECURSIVE ScanLines(_)
ScanLines(data) ==
    LET i == IndexOf(data, "\n")
    IN  IF data = <<>> THEN <<>>
        ELSE IF i = 0 THEN <<DropCR(data)>>
        ELSE <<DropCR(SubSeq(data, 1, i - 1))>>
                 \o ScanLines(SubSeq(data, i + 1, Len(data)))

\* s[0] + sep + s[1] + ...
RECURSIVE Join(_, _)
Join(ss, sep) ==
    IF ss = <<>> THEN <<>>
    ELSE IF Len(ss) = 1 THEN ss[1]
    ELSE ss[1] \o sep \o Join(Tail(ss), sep)

(***************************************************************************)
(* The package's constants                                                 *)
(***************************************************************************)
taskerFile == <<"S", "C", "H", "T", "A", "S", "K", "S">>

dbgMessage == <<"Y", "o", "u", " ", "a", "r", "e", " ", "c", "u", "r", "r",
                "e", "n", "t", "l", "y", " ", "i", "n", " ", "d", "e", "b",
                "u", "g", " ", "m", "o", "d", "e", ".">>

\* the value New gives SchTask.prefix
prefix == <<"g", "o", "-", "w", "i", "n", "t", "a", "s", "k", "-">>

\* the start of a header line of the CSV output
TaskNameHeader == <<"T", "a", "s", "k", "N", "a", "m", "e">>

\* _Create: the command and the switch of each field
Create_ == [Command     |-> <<"/", "C", "R", "E", "A", "T", "E">>,
            username    |-> <<"/", "R", "U">>,
            password    |-> <<"/", "R", "P">>,
            schedule    |-> <<"/", "S", "C">>,
            modifier    |-> <<"/", "M", "O">>,
            days        |-> <<"/", "D">>,
            months      |-> <<"/", "M">>,
            idletime    |-> <<"/", "I">>,
            taskname    |-> <<"/", "T", "N">>,
            taskrun     |-> <<"/", "T", "R">>,
            starttime   |-> <<"/", "S", "T">>,
            interval    |-> <<"/", "R", "I">>,
            endtime     |-> <<"/", "E", "T">>,
            duration    |-> <<"/", "D", "U">>,
            terminate   |-> <<"/", "K">>,
            startdate   |-> <<"/", "S", "D">>,
            enddate     |-> <<"/", "E", "D">>,
            channelName |-> <<"/", "E", "C">>,
            noPassword  |-> <<"/", "N", "P">>,
            markDelete  |-> <<"/", "Z">>,
            preVista    |-> <<"/", "V", "1">>,
            force       |-> <<"/", "F">>,
            level       |-> <<"/", "R", "L">>,
            delaytime   |-> <<"/", "D", "E", "L", "A", "Y">>]

Delete_ == [Command  |-> <<"/", "D", "E", "L", "E", "T", "E">>,
            taskname |-> <<"/", "T", "N">>,
            force    |-> <<"/", "F">>]

Query_ == [Command   |-> <<"/", "Q", "U", "E", "R", "Y">>,
           format    |-> <<"/", "F", "O">>,
           formatCSV |-> <<"C", "S", "V">>,
           noHeader  |-> <<"/", "N", "H">>]

Change_ == [Command |-> <<"/", "C", "H", "A", "N", "G", "E">>]

Run_ == [Command   |-> <<"/", "R", "U", "N">>,
         taskname  |-> <<"/", "T", "N">>,
         immediate |-> <<"/", "I">>]

End_ == [Command  |-> <<"/", "E", "N", "D">>,
         taskname |-> <<"/", "T", "N">>]

ShowSid_ == [Command  |-> <<"/", "S", "H", "O", "W", "S", "I", "D">>,
             taskname |-> <<"/", "T", "N">>]

\* the second argument of ShowHelp's invocation
HelpSwitch == <<"/", "?">>

(***************************************************************************)
(* TaskCreate records                                                      *)
(***************************************************************************)
\* the zero value of the TaskCreate struct
ZeroTaskCreate ==
    [Username |-> <<>>, Password |-> <<>>, Taskname |-> <<>>,
     Taskrun |-> <<>>, Arguments |-> <<>>, Schedule |-> <<>>,
     Modifier |-> <<>>, Days |-> <<>>, Months |-> <<>>, Idletime |-> <<>>,
     Starttime |-> <<>>, Interval |-> <<>>, Endtime |-> <<>>,
     Duration |-> <<>>, Terminate |-> FALSE, Startdate |-> <<>>,
     Enddate |-> <<>>, ChannelName |-> <<>>, NoPassword |-> FALSE,
     MarkDelete |-> FALSE, Force |-> FALSE, Level |-> <<>>,
     Delaytime |-> <<>>]

\* the values a field is set to in the records the model tries
FieldValues ==
    [Username    |-> {<<"u", "1">>},
     Password    |-> {<<"p", "w">>},
     Taskname    |-> {<<"T", "e", "s", "t">>},
     Taskrun     |-> {<<"n", ".", "e", "x", "e">>, <<"m", "y", " ", "a", "p", "p">>},
     Arguments   |-> {<<<<"-", "v">>>>, <<<<"a", " ", "b">>, <<"-", "v">>>>,
                      <<<<>>, <<"-", "v">>>>},
     Schedule    |-> {<<"D", "A", "I", "L", "Y">>},
     Modifier    |-> {<<"2">>},
     Days        |-> {<<<<"M", "O", "N">>>>, <<<<"M", "O", "N">>, <<"T", "U", "E">>>>, <<<<>>>>, <<<<"M", "O", "N">>, <<>>>>},
     Months      |-> {<<<<"J", "A", "N">>>>, <<<<"J", "A", "N">>, <<"F", "E", "B">>>>, <<<<>>>>},
     Idletime    |-> {<<"1", "0">>},
     Starttime   |-> {<<"0", "8", ":", "0", "0">>},
     Interval    |-> {<<"6", "0">>},
     Endtime     |-> {<<"0", "9", ":", "0", "0">>},
     Duration    |-> {<<"0", "1", ":", "0", "0">>},
     Terminate   |-> {TRUE},
     Startdate   |-> {<<"0", "1", "/", "0", "2">>},
     Enddate     |-> {<<"0", "3", "/", "0", "4">>},
     ChannelName |-> {<<"S", "y", "s">>},
     NoPassword  |-> {TRUE},
     MarkDelete  |-> {TRUE},
     Force       |-> {TRUE},
     Level       |-> {<<"H", "I", "G", "H", "E", "S", "T">>},
     Delaytime   |-> {<<"0", "0", "0", "1", ":", "0", "0">>}]

Fields == DOMAIN FieldValues

\* the records with at most k fields set
RECURSIVE RecordsWith(_)
RecordsWith(k) ==
    IF k = 0 THEN {ZeroTaskCreate}
    ELSE LET less == RecordsWith(k - 1)
         IN  less \cup UNION {{[r EXCEPT ![f] = v] : v \in FieldValues[f]} :
                                  r \in less, f \in Fields}

\* a record with every field set
FullTaskCreate ==
    [Username |-> <<"u", "1">>, Password |-> <<"p", "w">>, Taskname |-> <<"T", "e", "s", "t">>,
     Taskrun |-> <<"m", "y", " ", "a", "p", "p">>, Arguments |-> <<<<"a", " ", "b">>, <<"-", "v">>>>,
     Schedule |-> <<"D", "A", "I", "L", "Y">>, Modifier |-> <<"2">>,
     Days |-> <<<<"M", "O", "N">>, <<"T", "U", "E">>>>, Months |-> <<<<"J", "A", "N">>, <<"F", "E", "B">>>>,
     Idletime |-> <<"1", "0">>, Starttime |-> <<"0", "8", ":", "0", "0">>, Interval |-> <<"6", "0">>,
     Endtime |-> <<"0", "9", ":", "0", "0">>, Duration |-> <<"0", "1", ":", "0", "0">>, Terminate |-> TRUE,
     Startdate |-> <<"0", "1", "/", "0", "2">>, Enddate |-> <<"0", "3", "/", "0", "4">>, ChannelName |-> <<"S", "y", "s">>,
     NoPassword |-> TRUE, MarkDelete |-> TRUE, Force |-> TRUE,
     Level |-> <<"H", "I", "G", "H", "E", "S", "T">>, Delaytime |-> <<"0", "0", "0", "1", ":", "0", "0">>]

\* the records the operations are called with
TaskCreates == RecordsWith(MaxFields) \cup {FullTaskCreate}

(***************************************************************************)
(* The environment of a call                                               *)
(***************************************************************************)
\* os.Args[0] of the running program
OsArgs0 == <<"b", "i", "n", "/", "t", ".", "e", "x", "e">>

\* what filepath.Abs(filepath.Dir(os.Args[0])) may give: it depends on the
\* working directory of the process
CurrDirs == {<<"C", ":", "/", "a">>, <<"D", ":", "/", "b">>}

\* the marker of an error value; NoError is Go's nil error
NoError == <<>>

AbsError == <<"g", "e", "t", "w", "d", ":", " ", "n", "o", " ", "s", "u", "c", "h", " ", "f", "i", "l", "e", " ", "o", "r", " ", "d", "i", "r", "e", "c", "t", "o", "r", "y">>

ExitError == <<"e", "x", "i", "t", " ", "s", "t", "a", "t", "u", "s", " ", "1">>

\* what the environment gives getCurrDir: a directory, or an error
CurrDirResults ==
    {[dir |-> d, err |-> NoError] : d \in CurrDirs}
        \cup {[dir |-> <<>>, err |-> AbsError]}

\* the environment of a call that does not read the program's path
NoEnv == [dir |-> <<>>, err |-> NoError]

\* the combined output SCHTASKS may give an operation other than Query
Outputs == {<<"S", "U", "C", "C", "E", "S", "S">>, <<"E", "R", "R", "O", "R", ":", " ", "d", "e", "n", "i", "e", "d", "\r", "\n">>}

\* what cmd.CombinedOutput may return
ExecResults == {[out |-> o, err |-> e] : o \in Outputs, e \in {NoError, ExitError}}

(***************************************************************************)
(* TaskMake                                                                *)
(***************************************************************************)
\* path.Split(os.Args[0]): the part after the last slash
RECURSIVE getCurrExe(_)
getCurrExe(args0) ==
    IF HasRune(args0, "/")
    THEN getCurrExe(SubSeq(args0, IndexOf(args0, "/") + 1, Len(args0)))
    ELSE args0

\* path.Join of two clean elements: empty elements are ignored
PathJoin(a, b) ==
    IF a = <<>> THEN b ELSE IF b = <<>> THEN a ELSE a \o <<"/">> \o b

\* a switch and its value, when the value is not empty
StringFlag(switch, value) ==
    IF value # <<>> THEN <<switch, value>> ELSE <<>>

\* a switch followed by a value, as a string field's
BoolFlagWithValue(switch, value) ==
    IF value THEN <<switch, <<"T", "R", "U", "E">>>> ELSE <<>>

\* a switch without a value, when the field is true
BoolFlag(switch, value) == IF value THEN <<switch>> ELSE <<>>

\* f += d + "," for every d of the list
RECURSIVE CommaEach(_)
CommaEach(list) ==
    IF list = <<>> THEN <<>> ELSE list[1] \o <<",">> \o CommaEach(Tail(list))

\* a list whose trailing comma is left in place
ListFlagUntrimmed(switch, list) ==
    IF Len(list) > 0 THEN StringFlag(switch, CommaEach(list)) ELSE <<>>

\* the days and months: the elements joined by commas, one trailing comma
\* trimmed
ListFlag(switch, list) ==
    IF Len(list) > 0
    THEN StringFlag(switch, TrimSuffix(CommaEach(list), <<",">>))
    ELSE <<>>

\* the arguments, each followed by a space, one with a space in it quoted
RECURSIVE ArgString(_)
ArgString(arguments) ==
    IF arguments = <<>> THEN <<>>
    ELSE (IF HasRune(arguments[1], " ")
          THEN <<"\"">> \o arguments[1] \o <<"\"", " ">>
          ELSE arguments[1] \o <<" ">>) \o ArgString(Tail(arguments))

\* the value of /TR: the program, quoted, and its arguments
RunValue(taskcreate, env) ==
    LET run == IF taskcreate.Taskrun = <<>>
               THEN PathJoin(env.dir, getCurrExe(OsArgs0))
               ELSE taskcreate.Taskrun
    IN  TrimSpace(<<"\"">> \o run \o <<"\"", " ">>
                      \o TrimSpace(ArgString(taskcreate.Arguments)))

\* a name that is never prefixed
OwnNameNeverPrefixed(task, name, own) == name

\* the name of /TN
OwnName(task, name, own) == IF own THEN task.prefix \o name ELSE name

\* the vector TaskMake returns (when getCurrDir did not end the program)
TaskMake(task, taskcreate, command, own, env) ==
    <<command>>
        \o StringFlag(Create_.username, taskcreate.Username)
        \o StringFlag(Create_.password, taskcreate.Password)
        \o StringFlag(Create_.schedule, taskcreate.Schedule)
        \o StringFlag(Create_.modifier, taskcreate.Modifier)
        \o ListFlag(Create_.days, taskcreate.Days)
        \o ListFlag(Create_.months, taskcreate.Months)
        \o StringFlag(Create_.idletime, taskcreate.Idletime)
        \o StringFlag(Create_.starttime, taskcreate.Starttime)
        \o StringFlag(Create_.interval, taskcreate.Interval)
        \o StringFlag(Create_.endtime, taskcreate.Endtime)
        \o StringFlag(Create_.duration, taskcreate.Duration)
        \o BoolFlag(Create_.terminate, taskcreate.Terminate)
        \o StringFlag(Create_.startdate, taskcreate.Startdate)
        \o StringFlag(Create_.enddate, taskcreate.Enddate)
        \o StringFlag(Create_.channelName, taskcreate.ChannelName)
        \o BoolFlag(Create_.noPassword, taskcreate.NoPassword)
        \o BoolFlag(Create_.force, taskcreate.Force)
        \o StringFlag(Create_.level, taskcreate.Level)
        \o StringFlag(Create_.delaytime, taskcreate.Delaytime)
        \o <<Create_.taskname, OwnName(task, taskcreate.Taskname, own)>>
        \o <<Create_.taskrun, RunValue(taskcreate, env)>>
        \o (IF taskcreate.MarkDelete
            THEN <<Create_.preVista, Create_.markDelete>>
            ELSE <<>>)

\* whether TaskMake reads the program's path (getCurrDir, getCurrExe)
ReadsEnv(taskcreate) == taskcreate.Taskrun = <<>>

\* the environments a call of TaskMake may meet
EnvsOf(taskcreate) ==
    IF ReadsEnv(taskcreate) THEN CurrDirResults ELSE {NoEnv}

(***************************************************************************)
(* The state: the package variable Debug, the SchTask object the program   *)
(* holds, and what the last call of an operation did.                      *)
(***************************************************************************)
VARIABLES
    Debug,      \* the package variable Debug
    task,       \* the SchTask object: bin, prefix, compatibility
    op,         \* the operation called last ("none" before the first call)
    args,       \* its arguments
    dbg,        \* the value Debug had when it was called
    env,        \* what the environment gave getCurrDir during the call
    printed,    \* the vectors the call printed ("Commands:")
    execs,      \* the processes the call started, in order: bin and args
    extres,     \* what cmd.CombinedOutput returned: output and error
    ret,        \* the value returned to the caller
    outcome,    \* "none", "returned", "fatal" (log.Fatal) or "panic"
    fatalMsg    \* the text log.Fatal wrote

vars == <<Debug, task, op, args, dbg, env, printed, execs, extres, ret,
          outcome, fatalMsg>>

\* no process was started
NoExec == [out |-> <<>>, err |-> NoError]

\* New
New(com) == [bin |-> taskerFile, prefix |-> prefix, compatibility |-> com]

\* a catch that lets an error pass
catchIgnoresError(out, e) == FALSE

\* catch: TRUE when it ends the program through log.Fatal(string(out))
catch(out, e) == e # NoError

\* an invocation that is tried a second time
StartedTwice(bin, argv) ==
    <<[bin |-> bin, args |-> argv], [bin |-> bin, args |-> argv]>>

\* the processes one exec.Command(bin, args...) followed by one
\* cmd.CombinedOutput() starts
Started(bin, argv) == <<[bin |-> bin, args |-> argv]>>

\* what a call leaves: log.Fatal ends the program with msg
Fatal(msg, pr, ex, xr) ==
    [printed |-> pr, execs |-> ex, extres |-> xr, ret |-> <<>>,
     outcome |-> "fatal", fatalMsg |-> msg]

\* what a call leaves: value is returned
Returned(value, pr, ex, xr) ==
    [printed |-> pr, execs |-> ex, extres |-> xr, ret |-> value,
     outcome |-> "returned", fatalMsg |-> <<>>]

\* what a call leaves: an index out of range ends the program
Panicked(pr, ex, xr) ==
    [printed |-> pr, execs |-> ex, extres |-> xr, ret |-> <<>>,
     outcome |-> "panic", fatalMsg |-> <<>>]

\* cmd := exec.Command(task.bin, argv...); output, err :=
\* cmd.CombinedOutput(); catch(output, err); return string(output)
RunCommand(t, argv, r, pr) ==
    IF catch(r.out, r.err)
    THEN Fatal(r.out, pr, Started(t.bin, argv), r)
    ELSE Returned(r.out, pr, Started(t.bin, argv), r)

\* if Debug { return dbgMessage }
DebugReturn(pr) == Returned(dbgMessage, pr, <<>>, NoExec)

\* getCurrDir's log.Fatal(err), inside TaskMake
GetCurrDirFatal(e) == Fatal(e.err, <<>>, <<>>, NoExec)

\* Create and Change: TaskMake, then the invocation unless Debug is set
MakeAndRun(t, debug, taskcreate, command, own, e, r) ==
    IF ReadsEnv(taskcreate) /\ e.err # NoError THEN GetCurrDirFatal(e)
    ELSE LET cmds == TaskMake(t, taskcreate, command, own, e)
             pr == IF debug THEN <<cmds>> ELSE <<>>
         IN  IF debug THEN DebugReturn(pr) ELSE RunCommand(t, cmds, r, pr)

CreateCall(t, debug, taskcreate, e, r) ==
    MakeAndRun(t, debug, taskcreate, Create_.Command, TRUE, e, r)

ChangeCall(t, debug, taskcreate, own, e, r) ==
    MakeAndRun(t, debug, taskcreate, Change_.Command, own, e, r)

DeleteCall(t, debug, taskname, own, force, r) ==
    IF debug THEN DebugReturn(<<>>)
    ELSE LET name == OwnName(t, taskname, own)
         IN  IF ~force
             THEN RunCommand(t, <<Delete_.Command, Delete_.taskname, name>>,
                             r, <<>>)
             ELSE RunCommand(t, <<Delete_.Command, Delete_.taskname, name,
                                  Delete_.force>>, r, <<>>)

RunCall(t, debug, taskName, own, r) ==
    IF debug THEN DebugReturn(<<>>)
    ELSE RunCommand(t, <<Run_.Command, Run_.taskname,
                         OwnName(t, taskName, own), Run_.immediate>>, r, <<>>)

EndCall(t, debug, taskName, own, r) ==
    IF debug THEN DebugReturn(<<>>)
    ELSE RunCommand(t, <<End_.Command, End_.taskname,
                         OwnName(t, taskName, own)>>, r, <<>>)

ShowSidCall(t, debug, taskName, own, r) ==
    IF debug THEN DebugReturn(<<>>)
    ELSE RunCommand(t, <<ShowSid_.Command, ShowSid_.taskname,
                         <<"\\">> \o OwnName(t, taskName, own)>>, r, <<>>)

ShowHelpCall(t, command, r) ==
    RunCommand(t, <<command, HelpSwitch>>, r, <<>>)

(***************************************************************************)
(* Query                                                                   *)
(***************************************************************************)
\* the vector of Query's invocation
QueryArgs(t) ==
    IF t.compatibility
    THEN <<Query_.Command, Query_.format, Query_.formatCSV>>
    ELSE <<Query_.Command, Query_.format, Query_.formatCSV, Query_.noHeader>>

\* the filter Query compares the task names with
QueryFilter(t, name, own) ==
    IF own THEN t.prefix \o (IF name = <<"*">> THEN <<>> ELSE name) ELSE name

\* the line without its double quotes
Unquoted(line) == RemoveAll(line, "\"")

\* the header lines Query skips
Skipped(t, tx) == t.compatibility /\ HasPrefix(tx, TaskNameHeader)

\* the condition under which a line's record is appended
Matches(tname, name) ==
    \/ name = <<"*">>
    \/ name = <<>>
    \/ Contains(ToLower(tname), ToLower(name))

\* the scanner loop over the lines that are left: the list so far, or a
\* panic when ts[1] or ts[2] is out of range
RECURSIVE QueryLoop(_, _, _, _)
QueryLoop(t, lines, name, taskList) ==
    IF lines = <<>> THEN [panic |-> FALSE, list |-> taskList]
    ELSE LET tx == Unquoted(lines[1])
             ts == Split(tx, ",")
             tname == TrimSpace(ts[1])
         IN  IF Skipped(t, tx) THEN QueryLoop(t, Tail(lines), name, taskList)
             ELSE IF Matches(tname, name)
             THEN IF Len(ts) < 3 THEN [panic |-> TRUE, list |-> taskList]
                  ELSE QueryLoop(t, Tail(lines), name,
                           Append(taskList,
                                  [name |-> tname,
                                   datetime |-> TrimSpace(ts[2]),
                                   status |-> TrimSpace(ts[3])]))
             ELSE QueryLoop(t, Tail(lines), name, taskList)

QueryCall(t, name, own, r) ==
    LET ex == Started(t.bin, QueryArgs(t))
        loop == QueryLoop(t, ScanLines(r.out), QueryFilter(t, name, own), <<>>)
    IN  IF catch(r.out, r.err) THEN Fatal(r.out, <<>>, ex, r)
        ELSE IF loop.panic THEN Panicked(<<>>, ex, r)
        ELSE Returned(loop.list, <<>>, ex, r)

(***************************************************************************)
(* The inputs the model tries                                              *)
(***************************************************************************)
\* task names given to Delete, Run, End and ShowSid
TaskNames == {<<>>, <<"T", "e", "s", "t">>}

\* commands given to ShowHelp
HelpCommands == {Create_.Command, Query_.Command, <<>>}

\* names given to Query
QueryNames == {<<>>, <<"*">>, <<"T", "e", "s", "t">>, <<"T", "E", "S", "T">>, <<"z", "z">>}

\* a row of a task of this tool
OwnRow == <<"\"", "\\", "g", "o", "-", "w", "i", "n", "t", "a", "s", "k", "-", "T", "e", "s", "t", "\"", ",", "\"", "N", "/", "A", "\"", ",", "\"", "R", "e", "a", "d", "y", "\"">>

\* the same task once more, in upper case and with blanks around the fields
OwnRowUpper == <<" ", "\"", "\\", "G", "O", "-", "W", "I", "N", "T", "A", "S", "K", "-", "T", "E", "S", "T", "\"", " ", ",", " ", "\"", "1", ":", "0", "0", " ", "P", "M", "\"", " ", ",", "\"", "O", "f", "f", "\"", " ">>

\* a row of another task
OtherRow == <<"\"", "\\", "O", "t", "h", "e", "r", "\"", ",", "\"", "N", "/", "A", "\"", ",", "\"", "R", "e", "a", "d", "y", "\"">>

\* a row with a fourth field
LongRow == <<"\"", "\\", "T", "e", "s", "t", "\"", ",", "\"", "N", "/", "A", "\"", ",", "\"", "R", "e", "a", "d", "y", "\"", ",", "\"", "x", "\"">>

\* a row of this tool's task with two fields only
ShortRow == <<"\"", "\\", "g", "o", "-", "w", "i", "n", "t", "a", "s", "k", "-", "T", "e", "s", "t", "\"", ",", "\"", "N", "/", "A", "\"">>

\* the header line of the CSV format
HeaderRow == <<"\"", "T", "a", "s", "k", "N", "a", "m", "e", "\"", ",", "\"", "N", "e", "x", "t", " ", "R", "u", "n", " ", "T", "i", "m", "e", "\"", ",", "\"", "S", "t", "a", "t", "u", "s", "\"">>

\* a row of a task whose name begins like the header, as SCHTASKS writes it
\* where task names carry no leading backslash
HeaderLikeRow == <<"\"", "T", "a", "s", "k", "N", "a", "m", "e", "X", "\"", ",", "\"", "N", "/", "A", "\"", ",", "\"", "R", "e", "a", "d", "y", "\"">>

\* the lines SCHTASKS writes in the model; the last one is an empty line
QueryLines ==
    {OwnRow, OwnRowUpper, OtherRow, LongRow, ShortRow, HeaderRow,
     HeaderLikeRow, <<>>}

\* the sequences of at most n lines
RECURSIVE LinesUpTo(_)
LinesUpTo(n) ==
    IF n = 0 THEN {<<>>}
    ELSE LET less == LinesUpTo(n - 1)
         IN  less \cup {Append(ls, l) : ls \in less, l \in QueryLines}

\* the line end SCHTASKS writes
EOL == <<"\r", "\n">>

\* the output that holds the lines ls
RECURSIVE OutputOf(_)
OutputOf(ls) ==
    IF ls = <<>> THEN <<>> ELSE ls[1] \o EOL \o OutputOf(Tail(ls))

\* the outputs of a query
QueryOutputs == {OutputOf(ls) : ls \in LinesUpTo(MaxLines)}

\* what cmd.CombinedOutput may return to Query
QueryResults ==
    {[out |-> o, err |-> NoError] : o \in QueryOutputs}
        \cup {[out |-> o, err |-> ExitError] : o \in Outputs}

(***************************************************************************)
(* The operations                                                          *)
(***************************************************************************)
\* the program is between two calls: the package is synchronous, so that a
\* call begins only after the caller has taken the result of the call before
Idle == outcome = "none"

\* the call of operation o with arguments a left res
Done(o, a, e, res) ==
    /\ op' = o
    /\ args' = a
    /\ dbg' = Debug
    /\ env' = e
    /\ printed' = res.printed
    /\ execs' = res.execs
    /\ extres' = res.extres
    /\ ret' = res.ret
    /\ outcome' = res.outcome
    /\ fatalMsg' = res.fatalMsg
    /\ UNCHANGED <<Debug, task>>

\* the program assigns the package variable Debug
SetDebug ==
    /\ Idle
    /\ Debug' \in BOOLEAN
    /\ UNCHANGED <<task, op, args, dbg, env, printed, execs, extres, ret,
                   outcome, fatalMsg>>

\* the program makes a new SchTask object
NewTask ==
    /\ Idle
    /\ \E com \in BOOLEAN : task' = New(com)
    /\ UNCHANGED <<Debug, op, args, dbg, env, printed, execs, extres, ret,
                   outcome, fatalMsg>>

Create ==
    /\ Idle
    /\ \E taskcreate \in TaskCreates, r \in ExecResults :
         \E e \in EnvsOf(taskcreate) :
           Done("Create", [taskcreate |-> taskcreate], e,
                CreateCall(task, Debug, taskcreate, e, r))

Change ==
    /\ Idle
    /\ \E taskcreate \in TaskCreates, own \in BOOLEAN, r \in ExecResults :
         \E e \in EnvsOf(taskcreate) :
           Done("Change", [taskcreate |-> taskcreate, own |-> own], e,
                ChangeCall(task, Debug, taskcreate, own, e, r))

Delete ==
    /\ Idle
    /\ \E taskname \in TaskNames, own \in BOOLEAN, force \in BOOLEAN,
          r \in ExecResults :
         Done("Delete", [name |-> taskname, own |-> own, force |-> force],
              NoEnv, DeleteCall(task, Debug, taskname, own, force, r))

Query ==
    /\ Idle
    /\ \E name \in QueryNames, own \in BOOLEAN, r \in QueryResults :
         Done("Query", [name |-> name, own |-> own], NoEnv,
              QueryCall(task, name, own, r))

Run ==
    /\ Idle
    /\ \E taskName \in TaskNames, own \in BOOLEAN, r \in ExecResults :
         Done("Run", [name |-> taskName, own |-> own], NoEnv,
              RunCall(task, Debug, taskName, own, r))

End ==
    /\ Idle
    /\ \E taskName \in TaskNames, own \in BOOLEAN, r \in ExecResults :
         Done("End", [name |-> taskName, own |-> own], NoEnv,
              EndCall(task, Debug, taskName, own, r))

ShowSid ==
    /\ Idle
    /\ \E taskName \in TaskNames, own \in BOOLEAN, r \in ExecResults :
         Done("ShowSid", [name |-> taskName, own |-> own], NoEnv,
              ShowSidCall(task, Debug, taskName, own, r))

ShowHelp ==
    /\ Idle
    /\ \E command \in HelpCommands, r \in ExecResults :
         Done("ShowHelp", [command |-> command], NoEnv,
              ShowHelpCall(task, command, r))

\* the caller takes what the call returned and goes on; after log.Fatal or
\* a panic the program has ended and nothing follows
Continue ==
    /\ outcome = "returned"
    /\ op' = "none"
    /\ args' = <<>>
    /\ dbg' = FALSE
    /\ env' = NoEnv
    /\ printed' = <<>>
    /\ execs' = <<>>
    /\ extres' = NoExec
    /\ ret' = <<>>
    /\ outcome' = "none"
    /\ fatalMsg' = <<>>
    /\ UNCHANGED <<Debug, task>>

\* the program has made its SchTask object and has called nothing yet
Init ==
    /\ Debug = FALSE
    /\ \E com \in BOOLEAN : task = New(com)
    /\ op = "none"
    /\ args = <<>>
    /\ dbg = FALSE
    /\ env = NoEnv
    /\ printed = <<>>
    /\ execs = <<>>
    /\ extres = NoExec
    /\ ret = <<>>
    /\ outcome = "none"
    /\ fatalMsg = <<>>

Next ==
    \/ SetDebug
    \/ NewTask
    \/ Create
    \/ Delete
    \/ Query
    \/ Change
    \/ Run
    \/ End
    \/ ShowSid
    \/ ShowHelp
    \/ Continue

Spec == Init /\ [][Next]_vars

(***************************************************************************)
(* The earlier revision of the package (src/unnamed/part_000): New takes   *)
(* no argument, there is no Debug variable, the operations return no       *)
(* string, Create passes the task name only, Delete does not read own,     *)
(* Query adds the prefix inside its loop and Change has an empty body.     *)
(***************************************************************************)
NewLegacy == [bin |-> taskerFile, prefix |-> prefix]

\* cmd := exec.Command(...); output, err := cmd.CombinedOutput();
\* catch(output, err), in an operation that returns nothing
RunCommandLegacy(t, argv, r) ==
    IF catch(r.out, r.err)
    THEN Fatal(r.out, <<>>, Started(t.bin, argv), r)
    ELSE Returned(<<>>, <<>>, Started(t.bin, argv), r)

\* of the record's fields Create reads taskname only
CreateCallLegacy(t, taskcreate, r) ==
    RunCommandLegacy(t, <<Create_.taskname, taskcreate.taskname>>, r)

DeleteCallLegacy(t, taskname, own, force, r) ==
    IF ~force
    THEN RunCommandLegacy(t, <<Delete_.Command, Delete_.taskname, taskname>>, r)
    ELSE RunCommandLegacy(t, <<Delete_.Command, Delete_.taskname, taskname,
                               Delete_.force>>, r)

\* the name the loop compares a line with: with own, the name of the
\* iteration before with the prefix added once more
LegacyFilter(t, name, own) == IF own THEN t.prefix \o name ELSE name

RECURSIVE QueryLoopLegacy(_, _, _, _, _)
QueryLoopLegacy(t, lines, name, own, taskList) ==
    IF lines = <<>> THEN [panic |-> FALSE, list |-> taskList]
    ELSE LET tx == Unquoted(lines[1])
             ts == Split(tx, ",")
             tname == TrimSpace(ts[1])
             name1 == LegacyFilter(t, name, own)
         IN  IF Matches(tname, name1)
             THEN IF Len(ts) < 3 THEN [panic |-> TRUE, list |-> taskList]
                  ELSE QueryLoopLegacy(t, Tail(lines), name1, own,
                           Append(taskList,
                                  [name |-> tname,
                                   datetime |-> TrimSpace(ts[2]),
                                   status |-> TrimSpace(ts[3])]))
             ELSE QueryLoopLegacy(t, Tail(lines), name1, own, taskList)

QueryCallLegacy(t, name, own, r) ==
    LET ex == Started(t.bin, <<Query_.Command, Query_.format,
                               Query_.formatCSV, Query_.noHeader>>)
        loop == QueryLoopLegacy(t, ScanLines(r.out), name, own, <<>>)
    IN  IF catch(r.out, r.err) THEN Fatal(r.out, <<>>, ex, r)
        ELSE IF loop.panic THEN Panicked(<<>>, ex, r)
        ELSE Returned(loop.list, <<>>, ex, r)

CreateLegacy ==
    /\ Idle
    /\ \E taskname \in TaskNames, r \in ExecResults :
         Done("Create", [taskcreate |-> [taskname |-> taskname]], NoEnv,
              CreateCallLegacy(task, [taskname |-> taskname], r))

DeleteLegacy ==
    /\ Idle
    /\ \E taskname \in TaskNames, own \in BOOLEAN, force \in BOOLEAN,
          r \in ExecResults :
         Done("Delete", [name |-> taskname, own |-> own, force |-> force],
              NoEnv, DeleteCallLegacy(task, taskname, own, force, r))

QueryLegacy ==
    /\ Idle
    /\ \E name \in QueryNames, own \in BOOLEAN, r \in QueryResults :
         Done("Query", [name |-> name, own |-> own], NoEnv,
              QueryCallLegacy(task, name, own, r))

\* Change does nothing
ChangeLegacy ==
    /\ Idle
    /\ \E name \in TaskNames, own \in BOOLEAN :
         Done("Change", [name |-> name, own |-> own], NoEnv,
              Returned(<<>>, <<>>, <<>>, NoExec))

InitLegacy ==
    /\ Debug = FALSE
    /\ task = NewLegacy
    /\ op = "none"
    /\ args = <<>>
    /\ dbg = FALSE
    /\ env = NoEnv
    /\ printed = <<>>
    /\ execs = <<>>
    /\ extres = NoExec
    /\ ret = <<>>
    /\ outcome = "none"
    /\ fatalMsg = <<>>

NextLegacy ==
    \/ CreateLegacy
    \/ DeleteLegacy
    \/ QueryLegacy
    \/ ChangeLegacy
    \/ Continue

SpecLegacy == InitLegacy /\ [][NextLegacy]_vars

(***************************************************************************)
(* The properties                                                          *)
(***************************************************************************)
\* the public operations
PublicOps == {"Create", "Delete", "Query", "Change", "Run", "End",
              "ShowSid", "ShowHelp"}

\* the operations that return dbgMessage when Debug is set
DebugOps == {"Create", "Delete", "Change", "Run", "End", "ShowSid"}

\* the operations that return the output as a string
StringOps == {"Create", "Delete", "Change", "Run", "End", "ShowSid",
              "ShowHelp"}

\* the last call ended in getCurrDir's log.Fatal
DiedInTaskMake ==
    /\ op \in {"Create", "Change"}
    /\ args.taskcreate.Taskrun = <<>>
    /\ env.err # NoError

\* C1, as stated: every call of a public operation starts the SCHTASKS
\* binary exactly once, whatever Debug is and whatever the input.
C1_ExactlyOnceAlways ==
    op \in PublicOps => Len(execs) = 1

\* C1, amended: no call starts SCHTASKS more than once; a call starts it
\* exactly once unless Debug was set and the operation is one of Create,
\* Delete, Change, Run, End, ShowSid, or TaskMake ended the program before
\* the invocation (getCurrDir failed, with an empty Taskrun); then it starts
\* it zero times.  What is started is the SCHTASKS binary.
C1_OnceUnlessDebugOrFatal ==
    op \in PublicOps =>
        /\ Len(execs) <= 1
        /\ Len(execs) = 0 <=> ((dbg /\ op \in DebugOps) \/ DiedInTaskMake)
        /\ \A i \in 1..Len(execs) : execs[i].bin = taskerFile

\* a call that was answered with an error and was not tried again
C1_Witness ==
    /\ op = "Create"
    /\ ~dbg
    /\ extres.err # NoError
    /\ Len(execs) = 1

\* C2: when Debug is true no public operation starts the SCHTASKS binary.
C2_DebugStartsNothing ==
    (op \in PublicOps /\ dbg) => execs = <<>>

\* C7: when the binary succeeds, Create, Delete, Change, Run, End, ShowSid
\* and ShowHelp return its combined output unchanged; when the invocation
\* returns an error the operation returns nothing: log.Fatal writes the
\* captured output and ends the program, the binary was started once only
\* and nothing is started afterwards.
C7_OutputOrFatal ==
    /\ [](op \in StringOps /\ execs # <<>> =>
            IF extres.err = NoError
            THEN outcome = "returned" /\ ret = extres.out
            ELSE /\ outcome = "fatal"
                 /\ ret = <<>>
                 /\ fatalMsg = extres.out
                 /\ Len(execs) = 1)
    /\ [][outcome = "fatal" => outcome' = "fatal" /\ execs' = execs]_vars

\* an invocation that failed in ShowSid
C7_Witness ==
    /\ op = "ShowSid"
    /\ extres.err # NoError
    /\ extres.out # <<>>
    /\ outcome = "fatal"

\* C10: Query returns a list for every output of a successful invocation:
\* no line, empty or with fewer than three fields, makes it fail.
C10_QueryNeverPanics ==
    (op = "Query" /\ extres.err = NoError) => outcome = "returned"

\* the vector TaskMake built in the last call: the one of the invocation,
\* or the one printed when Debug was set; <<>> when there is none
MadeVector ==
    IF op \in {"Create", "Change"} /\ execs # <<>> THEN execs[1].args
    ELSE IF op \in {"Create", "Change"} /\ printed # <<>> THEN printed[1]
    ELSE <<>>

\* the command and the own flag TaskMake was called with
MadeCommand == IF op = "Create" THEN <<"/", "C", "R", "E", "A", "T", "E">> ELSE <<"/", "C", "H", "A", "N", "G", "E">>

MadeOwn == IF op = "Create" THEN TRUE ELSE args.own

\* the prefix of the tool's own tasks
OwnPrefix == <<"g", "o", "-", "w", "i", "n", "t", "a", "s", "k", "-">>

\* the switches in the order of the claim, each with its field
SwitchTable ==
    <<[switch |-> <<"/", "R", "U">>, field |-> "Username", kind |-> "string"],
      [switch |-> <<"/", "R", "P">>, field |-> "Password", kind |-> "string"],
      [switch |-> <<"/", "S", "C">>, field |-> "Schedule", kind |-> "string"],
      [switch |-> <<"/", "M", "O">>, field |-> "Modifier", kind |-> "string"],
      [switch |-> <<"/", "D">>, field |-> "Days", kind |-> "list"],
      [switch |-> <<"/", "M">>, field |-> "Months", kind |-> "list"],
      [switch |-> <<"/", "I">>, field |-> "Idletime", kind |-> "string"],
      [switch |-> <<"/", "S", "T">>, field |-> "Starttime", kind |-> "string"],
      [switch |-> <<"/", "R", "I">>, field |-> "Interval", kind |-> "string"],
      [switch |-> <<"/", "E", "T">>, field |-> "Endtime", kind |-> "string"],
      [switch |-> <<"/", "D", "U">>, field |-> "Duration", kind |-> "string"],
      [switch |-> <<"/", "K">>, field |-> "Terminate", kind |-> "bool"],
      [switch |-> <<"/", "S", "D">>, field |-> "Startdate", kind |-> "string"],
      [switch |-> <<"/", "E", "D">>, field |-> "Enddate", kind |-> "string"],
      [switch |-> <<"/", "E", "C">>, field |-> "ChannelName", kind |-> "string"],
      [switch |-> <<"/", "N", "P">>, field |-> "NoPassword", kind |-> "bool"],
      [switch |-> <<"/", "F">>, field |-> "Force", kind |-> "bool"],
      [switch |-> <<"/", "R", "L">>, field |-> "Level", kind |-> "string"],
      [switch |-> <<"/", "D", "E", "L", "A", "Y">>, field |-> "Delaytime", kind |-> "string"],
      [switch |-> <<"/", "T", "N">>, field |-> "Taskname", kind |-> "name"],
      [switch |-> <<"/", "T", "R">>, field |-> "Taskrun", kind |-> "run"]>>

\* the arguments, one with a blank quoted
RECURSIVE QuotedArgs(_)
QuotedArgs(arguments) ==
    IF arguments = <<>> THEN <<>>
    ELSE <<IF \E i \in 1..Len(arguments[1]) : arguments[1][i] = " "
           THEN <<"\"">> \o arguments[1] \o <<"\"">>
           ELSE arguments[1]>> \o QuotedArgs(Tail(arguments))

\* the quoted program, a blank and the arguments with blanks between them,
\* surrounding white space trimmed
ProgramLine(program, arguments) ==
    TrimSpace(<<"\"">> \o program \o <<"\"", " ">>
                  \o TrimSpace(Join(QuotedArgs(arguments), <<" ">>)))

\* what one row of the table adds for record rec; always says whether /TN
\* and /TR are added for an empty field too, program is what stands for an
\* empty Taskrun
RowElements(row, rec, own, always, program) ==
    LET v == rec[row.field]
    IN  CASE row.kind = "string" ->
                 IF v # <<>> THEN <<row.switch, v>> ELSE <<>>
          [] row.kind = "bool" -> IF v THEN <<row.switch>> ELSE <<>>
          [] row.kind = "list" ->
                 IF Join(v, <<",">>) # <<>>
                 THEN <<row.switch, Join(v, <<",">>)>> ELSE <<>>
          [] row.kind = "name" ->
                 IF always \/ v # <<>>
                 THEN <<row.switch, IF own THEN OwnPrefix \o v ELSE v>>
                 ELSE <<>>
          [] row.kind = "run" ->
                 IF always \/ v # <<>>
                 THEN <<row.switch,
                        ProgramLine(IF v # <<>> THEN v ELSE program,
                                    rec.Arguments)>>
                 ELSE <<>>

RECURSIVE RowsFrom(_, _, _, _, _)
RowsFrom(i, rec, own, always, program) ==
    IF i > Len(SwitchTable) THEN <<>>
    ELSE RowElements(SwitchTable[i], rec, own, always, program)
             \o RowsFrom(i + 1, rec, own, always, program)

\* the vector of the claim: the command, the rows, then /V1 /Z
TableVector(rec, command, own, always, program) ==
    <<command>> \o RowsFrom(1, rec, own, always, program)
        \o (IF rec.MarkDelete THEN <<<<"/", "V", "1">>, <<"/", "Z">>>> ELSE <<>>)

\* C3, as stated: the vector is the command, then switch and value of each
\* field that is set in the order /RU ... /DELAY, /TN, /TR, then /V1 /Z; a
\* field that is empty or false adds nothing, and the vector is a function
\* of the record, the command and the own flag alone.
C3_VectorOfRecordAlone ==
    MadeVector # <<>> =>
        MadeVector = TableVector(args.taskcreate, MadeCommand, MadeOwn,
                                 FALSE, <<>>)

\* C3, amended: the vector is the command, then switch and value of each
\* field that is set in the order /RU ... /DELAY, then /TN and /TR, then
\* /V1 /Z; an empty or false field adds nothing, except that /TN with its
\* name (prefixed under own) and /TR with the quoted program and the
\* arguments are always there: for an empty Taskrun the program is the path
\* of the running executable, so that the vector then depends on the
\* environment too, and on nothing else.
C3_VectorOfRecordAndProgram ==
    MadeVector # <<>> =>
        MadeVector = TableVector(args.taskcreate, MadeCommand, MadeOwn, TRUE,
                                 env.dir \o <<"/", "t", ".", "e", "x", "e">>)

\* a record with an empty Taskrun, a list of days and a flag without value
C3_Witness ==
    /\ op = "Change"
    /\ args.taskcreate.Taskrun = <<>>
    /\ Len(args.taskcreate.Days) = 2
    /\ execs # <<>>
    /\ Len(MadeVector) = 7

\* the name a vector addresses: the element after /TN
AddressedName(v) ==
    v[1 + CHOOSE i \in 1..Len(v) : v[i] = <<"/", "T", "N">> /\ \A j \in 1..(i - 1) : v[j] # <<"/", "T", "N">>]

\* C4: Create names the task "go-wintask-" + Taskname; Delete, Change, Run
\* and End called with own address that same name for the same task name,
\* ShowSid does so after a leading backslash; without own each of them
\* passes the name as it is.
C4_OwnPrefixConsistent ==
    (op \in DebugOps /\ execs # <<>>) =>
        LET given == IF op \in {"Create", "Change"}
                     THEN args.taskcreate.Taskname ELSE args.name
            owned == IF op = "Create" THEN TRUE ELSE args.own
            name == IF owned THEN OwnPrefix \o given ELSE given
        IN  AddressedName(execs[1].args)
                = IF op = "ShowSid" THEN <<"\\">> \o name ELSE name

\* Delete addresses the task that Create made of the same name
C4_Witness ==
    /\ op = "Delete"
    /\ args.own
    /\ args.name # <<>>
    /\ execs # <<>>
    /\ AddressedName(execs[1].args) = OwnPrefix \o args.name

\* the lines of the output the last call read
OutputLines == ScanLines(extres.out)

\* the object was made with compatibility set
Compatible == "compatibility" \in DOMAIN task /\ task.compatibility

\* the k-th comma-separated field of a line, quotes removed and trimmed;
\* empty when the line has no such field
FieldOf(line, k) ==
    LET fs == Split(SelectSeq(line, LAMBDA c : c # "\""), ",")
    IN  IF k <= Len(fs) THEN TrimSpace(fs[k]) ELSE <<>>

\* a header line, which compatibility mode leaves out
IsHeader(line) ==
    Compatible /\ HasPrefix(SelectSeq(line, LAMBDA c : c # "\""), <<"T", "a", "s", "k", "N", "a", "m", "e">>)

\* the filter of the claims: the name, after the prefix under own, where
\* "*" under own stands for the prefix alone
ClaimedFilter(name, own) ==
    IF own THEN OwnPrefix \o (IF name = <<"*">> THEN <<>> ELSE name)
    ELSE name

\* a line passes filter f
Passes(line, f) ==
    /\ ~IsHeader(line)
    /\ \/ f = <<"*">>
       \/ f = <<>>
       \/ Contains(ToLower(FieldOf(line, 1)), ToLower(f))

\* the records of the lines that pass f, in the order of the lines
RECURSIVE RecordsOf(_, _)
RecordsOf(lines, f) ==
    IF lines = <<>> THEN <<>>
    ELSE (IF Passes(lines[1], f)
          THEN <<[name |-> FieldOf(lines[1], 1),
                  datetime |-> FieldOf(lines[1], 2),
                  status |-> FieldOf(lines[1], 3)]>>
          ELSE <<>>) \o RecordsOf(Tail(lines), f)

\* C5: Query returns, in the order of the output lines, exactly one record
\* for every line that passes the name filter, made of the line's first
\* three comma-separated fields without quotes and trimmed; a line that
\* does not pass adds none.
C5_RecordsOfPassingLines ==
    (op = "Query" /\ extres.err = NoError) =>
        /\ outcome = "returned"
        /\ ret = RecordsOf(OutputLines, ClaimedFilter(args.name, args.own))

\* C8: without own a line is returned iff the name is "*" or "" or the
\* line's task name contains it, letter case ignored; with own the filter
\* is the prefix followed by the name (the prefix alone for "*"), so that
\* every record returned with own names a task that contains the prefix.
C8_FilterDecidesLines ==
    (op = "Query" /\ extres.err = NoError) =>
        LET f == ClaimedFilter(args.name, args.own)
            names == {ret[i].name : i \in 1..Len(ret)}
        IN  /\ \A i \in 1..Len(OutputLines) :
                  ~IsHeader(OutputLines[i]) =>
                      (FieldOf(OutputLines[i], 1) \in names
                           <=> Passes(OutputLines[i], f))
            /\ args.own =>
                   \A n \in names : Contains(ToLower(n), ToLower(OwnPrefix))

\* C6: the invocation of each operation but ShowHelp begins with the
\* operation's own switch, and the vector is [/DELETE, /TN, name] with /F
\* after it iff force, [/RUN, /TN, name, /I], [/END, /TN, name],
\* [/SHOWSID, /TN, "\" + name], /CREATE ..., /CHANGE ..., and
\* [/QUERY, /FO, CSV] with /NH after it iff compatibility is not set.
C6_SubcommandFirst ==
    execs # <<>> =>
        LET v == execs[1].args
            names == IF op \in {"Delete", "Run", "End", "ShowSid"}
                     THEN {args.name, OwnPrefix \o args.name} ELSE {}
        IN  CASE op = "Delete" ->
                     \E n \in names :
                         v = <<<<"/", "D", "E", "L", "E", "T", "E">>, <<"/", "T", "N">>, n>>
                                 \o (IF args.force THEN <<<<"/", "F">>>> ELSE <<>>)
              [] op = "Run" -> \E n \in names : v = <<<<"/", "R", "U", "N">>, <<"/", "T", "N">>, n, <<"/", "I">>>>
              [] op = "End" -> \E n \in names : v = <<<<"/", "E", "N", "D">>, <<"/", "T", "N">>, n>>
              [] op = "ShowSid" ->
                     \E n \in names : v = <<<<"/", "S", "H", "O", "W", "S", "I", "D">>, <<"/", "T", "N">>, <<"\\">> \o n>>
              [] op = "Create" -> v[1] = <<"/", "C", "R", "E", "A", "T", "E">>
              [] op = "Change" -> v[1] = <<"/", "C", "H", "A", "N", "G", "E">>
              [] op = "Query" ->
                     v = <<<<"/", "Q", "U", "E", "R", "Y">>, <<"/", "F", "O">>, <<"C", "S", "V">>>>
                             \o (IF Compatible THEN <<>> ELSE <<<<"/", "N", "H">>>>)
              [] OTHER -> TRUE

\* the line has three comma-separated fields or more
HasThreeFields(line) ==
    Len(Split(SelectSeq(line, LAMBDA c : c # "\""), ",")) >= 3

\* C9: one call of Query compares every line with the same filter: under
\* own the prefix is added to the name once, so that whether a line is
\* returned does not depend on the lines before it.  (Stated for the
\* outputs whose lines all hold three fields, where no field access fails.)
C9_OneFilterPerCall ==
    (/\ op = "Query"
     /\ outcome = "returned"
     /\ \A i \in 1..Len(OutputLines) : HasThreeFields(OutputLines[i])) =>
        \E f \in (IF args.own THEN {OwnPrefix \o args.name, OwnPrefix}
                  ELSE {args.name}) :
            ret = RecordsOf(OutputLines, f)

\* the task rows of an output: its lines but the header lines
TaskRows(lines) == SelectSeq(lines, LAMBDA l : l # HeaderRow)

\* what Query of an object made without compatibility leaves for the same
\* arguments when SCHTASKS writes the rows alone (/NH)
NormalModeQuery(rows) ==
    QueryCall(New(FALSE), args.name, args.own,
              [out |-> OutputOf(rows), err |-> NoError])

\* C11: with compatibility set, Query on an output with header lines ends
\* as Query without compatibility does on the same task rows without the
\* header lines, and returns the same list: no header line gives a record
\* and no task row is left out.
C11_CompatibilitySameRecords ==
    (op = "Query" /\ Compatible /\ extres.err = NoError) =>
        LET normal == NormalModeQuery(TaskRows(OutputLines))
        IN  outcome = normal.outcome /\ ret = normal.ret

\* the places of an element in a vector
PlacesOf(v, x) == {i \in 1..Len(v) : v[i] = x}

\* the switches before the name: those of the optional fields
OptionalSwitches ==
    {SwitchTable[k].switch : k \in {n \in 1..Len(SwitchTable) :
                                SwitchTable[n].kind \in {"string", "bool", "list"}}}

\* the switches of the fields that are true or false
ValuelessSwitches ==
    {SwitchTable[k] : k \in {n \in 1..Len(SwitchTable) :
                                SwitchTable[n].kind = "bool"}}

\* every switch TaskMake can write
AllSwitches ==
    {SwitchTable[k].switch : k \in 1..Len(SwitchTable)}
        \cup {<<"/", "V", "1">>, <<"/", "Z">>}

\* C12: the vector TaskMake builds holds /TN and /TR once each, as the
\* consecutive pairs /TN name, /TR run after every switch of an optional
\* field, also for an empty Taskname or Taskrun and for /CHANGE; what
\* follows the value of /TR is /V1 /Z when MarkDelete is true and nothing
\* otherwise; Terminate, NoPassword and Force each add their switch once,
\* followed by the next switch and by no value.
C12_NameRunPairsLast ==
    MadeVector # <<>> =>
        LET v   == MadeVector
            rec == args.taskcreate
            tn  == PlacesOf(v, <<"/", "T", "N">>)
            tr  == PlacesOf(v, <<"/", "T", "R">>)
        IN  /\ Cardinality(tn) = 1
            /\ Cardinality(tr) = 1
            /\ LET i == CHOOSE n \in tn : TRUE
               IN  /\ tr = {i + 2}
                   /\ Len(v) >= i + 3
                   /\ v[i + 1] = (IF MadeOwn THEN OwnPrefix ELSE <<>>) \o rec.Taskname
                   /\ v[i + 1] \notin AllSwitches
                   /\ v[i + 3] \notin AllSwitches
                   /\ v[i + 3] # <<>>
                   /\ \A j \in 1..Len(v) : v[j] \in OptionalSwitches => j < i
                   /\ SubSeq(v, i + 4, Len(v))
                          = (IF rec.MarkDelete
                             THEN <<<<"/", "V", "1">>, <<"/", "Z">>>>
                             ELSE <<>>)
                   /\ PlacesOf(v, <<"/", "V", "1">>) \cup PlacesOf(v, <<"/", "Z">>)
                          \subseteq (i + 4)..Len(v)
            /\ \A b \in ValuelessSwitches :
                   LET at == PlacesOf(v, b.switch)
                   IN  /\ Cardinality(at) = (IF rec[b.field] THEN 1 ELSE 0)
                       /\ \A j \in at : j < Len(v) /\ v[j + 1] \in AllSwitches

\* /CHANGE of a record with no name and no program, marked for deletion,
\* with Terminate set, was started
C12_Witness ==
    /\ op = "Change"
    /\ execs # <<>>
    /\ args.taskcreate.Taskname = <<>>
    /\ args.taskcreate.Taskrun = <<>>
    /\ args.taskcreate.MarkDelete
    /\ args.taskcreate.Terminate
    /\ MadeVector[Len(MadeVector)] = <<"/", "Z">>

=============================================================================
